---------------------------- MODULE Spec2Model ----------------------------
(***************************************************************************)
(* A model of SAMD_SafeFlashStorage: the raw flash driver FlashClass       *)
(* (SAMD_SafeFlashStorage.cpp) and the typed record store                  *)
(* FlashStorageClass<T> (SAMD_SafeFlashStorage.h).                         *)
(*                                                                         *)
(* Memory is a window of MemBytes byte cells starting at address 0, the    *)
(* start of the flash of a SAMD part.  Cells outside the window are not    *)
(* tracked: a store to them is only recorded in the command trace and a    *)
(* load from them yields an unknown byte.  Both builds of the driver are   *)
(* modelled, selected by the variable dev ("SAMD21" is the #else branch of *)
(* every #if defined(__SAMD51__)).                                         *)
(*                                                                         *)
(* Programming a flash cell can only clear bits: the cell becomes the      *)
(* bitwise AND of its old content and the programmed byte.  A row erase    *)
(* sets every cell of the row to 0xFF.                                     *)
(***************************************************************************)
EXTENDS Integers, Sequences, FiniteSets, TLC

VARIABLES
  dev,            \* the build: "SAMD21" or "SAMD51"
  flash_address,  \* FlashClass::flash_address of the raw region object
  flash_size,     \* FlashClass::flash_size of the raw region object
  mem,            \* the tracked memory cells, address -> byte
  nvm,            \* controller and cache mode bits, and READY: the flag the
                  \* driver polls after a command (INTFLAG.READY, INTFLAG.DONE
                  \* and STATUS.READY)
  last,           \* the call that has just run: its arguments, result and
                  \* command trace; op = "none" when the driver is idle; pc is
                  \* the number of events of the trace executed so far when
                  \* the call is run step by step (SpecSync)
  intact,         \* store: the store whose write last returned true (0: none),
                  \* val: the value it wrote, flipped: the cells of its record
                  \* changed from outside since, sole: no other store has
                  \* written before, cut: the value of the write over that
                  \* record that lost power (<< >>: none)
  nwrites,        \* accepted raw writes so far
  nerases,        \* accepted raw erases so far
  nflips          \* externally flipped bits so far

vars == <<dev, flash_address, flash_size, mem, nvm, last, intact, nwrites, nerases, nflips>>

---------------------------------------------------------------------------
(* Bounds of the model *)

\* number of tracked memory cells (4 rows of 32 bytes)
MemBytes == 128
\* accepted raw writes in one behaviour
MaxRawWrites == 1
\* accepted raw erases in one behaviour
MaxRawErases == 1
\* externally flipped bits in one behaviour
MaxFlips == 1
\* bytes of a raw read's destination buffer that are tracked
MaxBuf == 8
\* largest size of an erase request that the region accepts
MaxEraseSize == 97

---------------------------------------------------------------------------
(* Machine arithmetic *)

\* uintptr_t and uint32_t are 32 bits wide on the target.  TLC's integers are
\* 32-bit signed, so the model scales both to 30 bits: every sum of two
\* addresses or sizes is then computed exactly before it is reduced.
UINTPTR_MAX == 1073741823
AddrSpace == UINTPTR_MAX + 1
Pow16 == 256 * 256

Min(a, b) == IF a < b THEN a ELSE b
Max(a, b) == IF a < b THEN b ELSE a
RoundUp(n, a) == ((n + a - 1) \div a) * a

RECURSIVE BitXor(_, _)
BitXor(a, b) ==
  IF a = 0 THEN b
  ELSE IF b = 0 THEN a
  ELSE (((a % 2) + (b % 2)) % 2) + 2 * BitXor(a \div 2, b \div 2)

RECURSIVE BitAnd(_, _)
BitAnd(a, b) ==
  IF a = 0 \/ b = 0 THEN 0
  ELSE ((a % 2) * (b % 2)) + 2 * BitAnd(a \div 2, b \div 2)

RECURSIVE Pow2(_)
Pow2(k) == IF k = 0 THEN 1 ELSE 2 * Pow2(k - 1)

\* the byte b with bit k inverted
FlipBit(b, k) == BitXor(b, Pow2(k))

---------------------------------------------------------------------------
(* FlashStorageInternal: the identity tag *)

\* uint16_t operands are promoted to int: the sum does not wrap, and the
\* result is truncated to 16 bits on return
\* a faulty variant: the lowest bit of the value is dropped
hash_combine_coarse(hash, value) ==
  BitXor(hash, (value \div 2) + 40503 + hash * 64 + hash \div 4) % Pow16

hash_combine(hash, value) ==
  BitXor(hash, value + 40503 + hash * 64 + hash \div 4) % Pow16

RECURSIVE hash_string(_, _, _)
hash_string(str, index, hash) ==
  IF index > Len(str) THEN hash
  ELSE hash_string(str, index + 1, hash_combine(hash, str[index]))

hash_variable(name, size) ==
  hash_combine(hash_string(name, 1, 23130), size % Pow16)

---------------------------------------------------------------------------
(* FlashStorageClass<T>: the checksum *)

\* the loop over the bytes lo .. hi of ptr, started with sum; a range of
\* more than one byte is run as its first half and then its second half
RECURSIVE calcChecksumRange(_, _, _, _)
calcChecksumRange(ptr, lo, hi, sum) ==
  IF lo > hi THEN sum
  ELSE IF lo = hi
  THEN LET s1 == (sum + ptr[lo]) % Pow16
       IN  BitXor(s1, s1 \div 256)
  ELSE LET mid  == (lo + hi) \div 2
           half == calcChecksumRange(ptr, lo, mid, sum)
       \* sum is a uint16_t
       IN  IF half \in 0 .. (Pow16 - 1)
           THEN calcChecksumRange(ptr, mid + 1, hi, half)
           ELSE half % Pow16

calcChecksumFrom(ptr, i, sum) == calcChecksumRange(ptr, i, Len(ptr), sum)

\* a faulty variant: the sum starts at 0
calcChecksumZeroSeed(ptr) == calcChecksumFrom(ptr, 1, 0)

calcChecksum(ptr) == calcChecksumFrom(ptr, 1, 42405)

---------------------------------------------------------------------------
(* FlashClass: geometry read from NVMCTRL->PARAM at construction *)

Devices == {"SAMD21", "SAMD51"}

pageSizes == <<8, 16, 32, 64, 128, 256, 512, 1024>>

\* NVMCTRL->PARAM.bit.PSZ of the modelled parts
PARAM_PSZ == 0
\* NVMCTRL->PARAM.bit.NVMP of the modelled parts
PARAM_NVMP(d) == IF d = "SAMD51" THEN 256 ELSE 16

PAGE_SIZE == pageSizes[PARAM_PSZ + 1]

ROW_SIZE(d) ==
  IF d = "SAMD51" THEN (PAGE_SIZE * PARAM_NVMP(d)) \div 64 ELSE PAGE_SIZE * 4

\* the device flash size computed by erase(flash_ptr), a uint32_t
flash_size_bytes(d) ==
  IF d = "SAMD51" THEN (PARAM_NVMP(d) * PAGE_SIZE * 64) % AddrSpace
  ELSE (PARAM_NVMP(d) * PAGE_SIZE) % AddrSpace

---------------------------------------------------------------------------
(* FlashClass::isWithinBounds *)

\* a faulty variant: a declared length of 0 is taken as a bound
isWithinBoundsStrict(fa, fs, flash_ptr, size) ==
  IF fa = 0 THEN TRUE
  ELSE IF flash_ptr > UINTPTR_MAX - size THEN FALSE
  ELSE flash_ptr >= fa /\ flash_ptr + size <= (fa + fs) % AddrSpace

isWithinBounds(fa, fs, flash_ptr, size) ==
  IF fs = 0 \/ fa = 0 THEN TRUE
  ELSE IF flash_ptr > UINTPTR_MAX - size THEN FALSE
  ELSE LET op_end      == flash_ptr + size
           bound_start == fa
           bound_end   == (bound_start + fs) % AddrSpace
       IN  flash_ptr >= bound_start /\ op_end <= bound_end

---------------------------------------------------------------------------
(* Memory cells and the command trace *)
(* An event of the trace is <<kind, argument>>:                            *)
(*   MANW v, WMODE v, CACHEDIS v   a mode bit write                         *)
(*   PBC, WP, ER a                 a controller command (ER: on the row a)  *)
(*                                 (ER is CMD_ER, and CMD_EB on SAMD51)     *)
(*   ADDR v                        a write of NVMCTRL->ADDR                 *)
(*   FILL a                        a word stored into the page buffer at a  *)
(*   WAIT                          a poll of the controller's ready flag    *)
(*   CEN v, INVALL, CWAIT          the cache controller                     *)
(*   RESTORE, DSB, ISB, COPY                                               *)

Cells == 0 .. (MemBytes - 1)

\* the byte at address a; u stands for the content of an untracked cell
Load(m, a, u) == IF a \in Cells THEN m[a] ELSE u

\* byte i (from 0) of a source buffer; g stands for what lies behind it
SrcByte(data, i, g) == IF i < Len(data) THEN data[i + 1] ELSE g

IsCommand(e) == e[1] \in {"PBC", "WP", "ER"}
Commands(ev) == SelectSeq(ev, IsCommand)
RowErases(ev) == SelectSeq(ev, LAMBDA e : e[1] = "ER")
PageWrites(ev) == SelectSeq(ev, LAMBDA e : e[1] = "WP")

\* invalidate_CMCC_cache
invalidate_CMCC_cache(n) ==
  IF n.CSTS
  THEN << <<"CEN", 0>>, <<"CWAIT", 0>>, <<"INVALL", 0>>, <<"CEN", 1>>, <<"CWAIT", 0>> >>
  ELSE << >>

---------------------------------------------------------------------------
(* FlashClass::read(flash_ptr, data, size) *)
(* data is the tracked part of the destination buffer.                     *)

FlashRead(d, fa, fs, m, flash_ptr, data, size, u) ==
  IF ~isWithinBounds(fa, fs, flash_ptr, size)
  THEN [ret |-> FALSE, out |-> data, ev |-> << >>]
  ELSE [ret |-> TRUE,
        out |-> [i \in 1 .. Len(data) |->
                   IF i <= size THEN Load(m, (flash_ptr + i - 1) % AddrSpace, u)
                   ELSE data[i]],
        ev  |-> IF d = "SAMD51"
                THEN << <<"DSB", 0>>, <<"COPY", size>>, <<"DSB", 0>> >>
                ELSE << <<"COPY", size>> >>]

---------------------------------------------------------------------------
(* FlashClass::erase(flash_ptr): one row *)

\* a faulty variant: the row-alignment test is left out
EraseRowUnaligned(d, m, n, addr) ==
  IF addr >= flash_size_bytes(d)
  THEN [ret |-> FALSE, mem |-> m, ev |-> << >>]
  ELSE [ret |-> TRUE,
        mem |-> [a \in Cells |->
                   IF addr <= a /\ a < addr + ROW_SIZE(d) THEN 255 ELSE m[a]],
        ev  |-> << <<"ADDR", addr>>, <<"ER", addr>>, <<"WAIT", 0>> >>]

\* a faulty variant: the row is not compared with the size of the flash
EraseRowNoRange(d, m, n, addr) ==
  IF addr % ROW_SIZE(d) # 0
  THEN [ret |-> FALSE, mem |-> m, ev |-> << >>]
  ELSE [ret |-> TRUE,
        mem |-> [a \in Cells |->
                   IF addr <= a /\ a < addr + ROW_SIZE(d) THEN 255 ELSE m[a]],
        ev  |-> << <<"ADDR", addr>>, <<"ER", addr>>, <<"WAIT", 0>> >>]

\* a faulty variant: the row erase is not waited for
EraseRowNoWait(d, m, n, addr) ==
  IF addr % ROW_SIZE(d) # 0
  THEN [ret |-> FALSE, mem |-> m, ev |-> << >>]
  ELSE IF addr >= flash_size_bytes(d)
  THEN [ret |-> FALSE, mem |-> m, ev |-> << >>]
  ELSE [ret |-> TRUE,
        mem |-> [a \in Cells |->
                   IF addr <= a /\ a < addr + ROW_SIZE(d) THEN 255 ELSE m[a]],
        ev  |-> << <<"ADDR", addr>>, <<"ER", addr>> >>]

EraseRow(d, m, n, addr) ==
  IF addr % ROW_SIZE(d) # 0
  THEN [ret |-> FALSE, mem |-> m, ev |-> << >>]
  ELSE IF addr >= flash_size_bytes(d)
  THEN [ret |-> FALSE, mem |-> m, ev |-> << >>]
  ELSE [ret |-> TRUE,
        mem |-> [a \in Cells |->
                   IF addr <= a /\ a < addr + ROW_SIZE(d) THEN 255 ELSE m[a]],
        ev  |-> IF d = "SAMD51"
                THEN << <<"ADDR", addr>>, <<"ER", addr>>, <<"WAIT", 0>> >>
                     \o invalidate_CMCC_cache(n)
                     \o << <<"DSB", 0>>, <<"ISB", 0>> >>
                ELSE << <<"ADDR", addr \div 2>>, <<"ER", addr>>, <<"WAIT", 0>> >>]

(* FlashClass::erase(flash_ptr, size): the loop over the rows *)

\* a faulty variant: the rows are erased while a whole row remains, and the
\* partial row at the end is forgotten
RECURSIVE EraseRowsNoTail(_, _, _, _, _)
EraseRowsNoTail(d, m, n, ptr, size) ==
  IF size >= ROW_SIZE(d)
  THEN LET r == EraseRow(d, m, n, ptr)
       IN  IF ~r.ret THEN r
           ELSE LET rest == EraseRowsNoTail(d, r.mem, n, (ptr + ROW_SIZE(d)) % AddrSpace,
                                            size - ROW_SIZE(d))
                IN  [ret |-> rest.ret, mem |-> rest.mem, ev |-> r.ev \o rest.ev]
  ELSE [ret |-> TRUE, mem |-> m, ev |-> << >>]

RECURSIVE EraseRows(_, _, _, _, _)
EraseRows(d, m, n, ptr, size) ==
  IF size > ROW_SIZE(d)
  THEN LET r == EraseRow(d, m, n, ptr)
       IN  IF ~r.ret THEN r
           ELSE LET rest == EraseRows(d, r.mem, n, (ptr + ROW_SIZE(d)) % AddrSpace,
                                      size - ROW_SIZE(d))
                IN  [ret |-> rest.ret, mem |-> rest.mem, ev |-> r.ev \o rest.ev]
  ELSE IF size > 0 THEN EraseRow(d, m, n, ptr)
  ELSE [ret |-> TRUE, mem |-> m, ev |-> << >>]

FlashErase(d, fa, fs, m, n, flash_ptr, size) ==
  IF ~isWithinBounds(fa, fs, flash_ptr, size)
  THEN [ret |-> FALSE, mem |-> m, ev |-> << >>]
  ELSE EraseRows(d, m, n, flash_ptr, size)

---------------------------------------------------------------------------
(* FlashClass::write(flash_ptr, data, size) *)

\* read_unaligned_uint32: the four source bytes of word w, in memory order
read_unaligned_uint32(data, si, g) ==
  [j \in 1 .. 4 |-> SrcByte(data, si + j - 1, g)]

\* "Do writes in pages": one turn of the outer loop per call
RECURSIVE WritePages(_, _, _, _, _, _, _, _)
WritePages(d, m, n, dst, data, si, words, g) ==
  IF words = 0 THEN [mem |-> m, ev |-> << >>]
  ELSE LET k     == Min(PAGE_SIZE \div 4, words)
           fills == [j \in 1 .. k |-> <<"FILL", (dst + 4 * (j - 1)) % AddrSpace>>]
           m1    == [a \in Cells |->
                       LET off == (a - dst) % AddrSpace
                       IN  IF off < 4 * k
                           THEN BitAnd(m[a],
                                  read_unaligned_uint32(data, si + 4 * (off \div 4), g)
                                    [(off % 4) + 1])
                           ELSE m[a]]
           rest  == WritePages(d, m1, n, (dst + 4 * k) % AddrSpace, data, si + 4 * k,
                               words - k, g)
       IN  [mem |-> rest.mem,
            ev  |-> << <<"PBC", 0>>, <<"WAIT", 0>> >> \o fills
                    \o << <<"WP", (dst + 4 * (k - 1)) % AddrSpace>>, <<"WAIT", 0>> >>
                    \o (IF d = "SAMD51" THEN invalidate_CMCC_cache(n) ELSE << >>)
                    \o rest.ev]

\* a faulty variant: the write mode is set before the bounds are checked
FlashWriteModeFirst(d, fa, fs, m, n, flash_ptr, data, size, g) ==
  LET n1 == IF d = "SAMD51" THEN [n EXCEPT !.WMODE = 0] ELSE [n EXCEPT !.MANW = TRUE]
      e1 == IF d = "SAMD51" THEN << <<"WMODE", 0>>, <<"WAIT", 0>> >> ELSE << <<"MANW", 1>> >>
  IN  IF ~isWithinBounds(fa, fs, flash_ptr, size)
      THEN [ret |-> FALSE, mem |-> m, nvm |-> n1, ev |-> e1]
      ELSE LET words == ((size + 3) % AddrSpace) \div 4
               w     == WritePages(d, m, n1, flash_ptr, data, 0, words, g)
           IN  [ret |-> TRUE, mem |-> w.mem, nvm |-> n1, ev |-> e1 \o w.ev]

FlashWrite(d, fa, fs, m, n, flash_ptr, data, size, g) ==
  IF ~isWithinBounds(fa, fs, flash_ptr, size)
  THEN [ret |-> FALSE, mem |-> m, nvm |-> n, ev |-> << >>]
  ELSE LET words == ((size + 3) % AddrSpace) \div 4
           w     == WritePages(d, m, n, flash_ptr, data, 0, words, g)
       IN  IF d = "SAMD51"
           THEN [ret |-> TRUE, mem |-> w.mem,
                 nvm |-> [n EXCEPT !.WMODE = 0],
                 ev  |-> << <<"WMODE", 0>>, <<"WAIT", 0>>, <<"CACHEDIS", 1>> >>
                         \o w.ev
                         \o << <<"RESTORE", 0>>, <<"DSB", 0>>, <<"ISB", 0>> >>]
           ELSE [ret |-> TRUE, mem |-> w.mem,
                 nvm |-> [n EXCEPT !.MANW = TRUE],
                 ev  |-> << <<"MANW", 1>> >> \o w.ev]

---------------------------------------------------------------------------
(* FlashStorageClass<T> *)
(* A store is [name, size, align, addr, variable_hash]: the logical name    *)
(* given to the FlashStorage macro (its character codes), sizeof(T),       *)
(* alignof(T), the address of the reserved block and the member            *)
(* variable_hash.                                                          *)

\* struct StorageFormat { uint16_t id_hash; T data; uint16_t checksum; }
offData(s) == RoundUp(2, s.align)
offSum(s) == RoundUp(offData(s) + s.size, 2)
sizeofStorageFormat(s) == RoundUp(offSum(s) + 2, Max(2, s.align))

\* FlashStorage(name, T): the store object, with the tag the macro passes to
\* the constructor
FlashStorage(name, size, align, addr) ==
  [name |-> name, size |-> size, align |-> align, addr |-> addr,
   variable_hash |-> hash_variable(name, size)]

\* the bytes of a 16-bit value in memory (little-endian)
Lo(x) == x % 256
Hi(x) == (x \div 256) % 256

\* pkg as write builds it: zero-initialised, then the three members set
PkgOf(s, id_hash, data, checksum) ==
  [i \in 1 .. sizeofStorageFormat(s) |->
     LET o == i - 1
     IN  IF o = 0 THEN Lo(id_hash)
         ELSE IF o = 1 THEN Hi(id_hash)
         ELSE IF offData(s) <= o /\ o < offData(s) + s.size THEN data[o - offData(s) + 1]
         ELSE IF o = offSum(s) THEN Lo(checksum)
         ELSE IF o = offSum(s) + 1 THEN Hi(checksum)
         ELSE 0]

Pkg(s, data) == PkgOf(s, s.variable_hash, data, calcChecksum(data))

\* the members of a StorageFormat image
IdHashOf(pkg) == pkg[1] + 256 * pkg[2]
DataOf(s, pkg) == [i \in 1 .. s.size |-> pkg[offData(s) + i]]
ChecksumOf(s, pkg) == pkg[offSum(s) + 1] + 256 * pkg[offSum(s) + 2]

\* a buffer of n bytes, each b
Fill(n, b) == [i \in 1 .. n |-> b]

\* a faulty variant: the result of the erase is ignored
StoreWriteIgnoreErase(d, m, n, s, data, u, g) ==
  LET fa  == s.addr
      fs  == sizeofStorageFormat(s)
      pkg == Pkg(s, data)
      rd  == FlashRead(d, fa, fs, m, fa, Fill(fs, u), fs, u)
  IN  IF rd.ret /\ rd.out = pkg
      THEN [ret |-> TRUE, mem |-> m, nvm |-> n, ev |-> rd.ev]
      ELSE LET er == FlashErase(d, fa, fs, m, n, fa, fs)
               wr == FlashWrite(d, fa, fs, er.mem, n, fa, pkg, fs, g)
           IN  [ret |-> wr.ret, mem |-> wr.mem, nvm |-> wr.nvm,
                ev |-> rd.ev \o er.ev \o wr.ev]

\* a faulty variant: the record is programmed over the old one, not erased
StoreWriteNoErase(d, m, n, s, data, u, g) ==
  LET fa  == s.addr
      fs  == sizeofStorageFormat(s)
      pkg == Pkg(s, data)
      rd  == FlashRead(d, fa, fs, m, fa, Fill(fs, u), fs, u)
  IN  IF rd.ret /\ rd.out = pkg
      THEN [ret |-> TRUE, mem |-> m, nvm |-> n, ev |-> rd.ev]
      ELSE LET wr == FlashWrite(d, fa, fs, m, n, fa, pkg, fs, g)
           IN  [ret |-> wr.ret, mem |-> wr.mem, nvm |-> wr.nvm, ev |-> rd.ev \o wr.ev]

\* a faulty variant: the stored record is not compared, every call erases
\* and writes
StoreWriteAlways(d, m, n, s, data, u, g) ==
  LET fa  == s.addr
      fs  == sizeofStorageFormat(s)
      pkg == Pkg(s, data)
      rd  == FlashRead(d, fa, fs, m, fa, Fill(fs, u), fs, u)
      er  == FlashErase(d, fa, fs, m, n, fa, fs)
  IN  IF ~er.ret
      THEN [ret |-> FALSE, mem |-> er.mem, nvm |-> n, ev |-> rd.ev \o er.ev]
      ELSE LET wr == FlashWrite(d, fa, fs, er.mem, n, fa, pkg, fs, g)
           IN  [ret |-> wr.ret, mem |-> wr.mem, nvm |-> wr.nvm,
                ev |-> rd.ev \o er.ev \o wr.ev]

\* FlashStorageClass::write(T data); u: the content of the uninitialised
\* local 'existing', g: what lies behind pkg in memory
StoreWrite(d, m, n, s, data, u, g) ==
  LET fa  == s.addr
      fs  == sizeofStorageFormat(s)
      pkg == Pkg(s, data)
      rd  == FlashRead(d, fa, fs, m, fa, Fill(fs, u), fs, u)
  IN  IF rd.ret /\ rd.out = pkg
      THEN [ret |-> TRUE, mem |-> m, nvm |-> n, ev |-> rd.ev]
      ELSE LET er == FlashErase(d, fa, fs, m, n, fa, fs)
           IN  IF ~er.ret
               THEN [ret |-> FALSE, mem |-> er.mem, nvm |-> n, ev |-> rd.ev \o er.ev]
               ELSE LET wr == FlashWrite(d, fa, fs, er.mem, n, fa, pkg, fs, g)
                    IN  [ret |-> wr.ret, mem |-> wr.mem, nvm |-> wr.nvm,
                         ev |-> rd.ev \o er.ev \o wr.ev]

\* a faulty variant: the checksum is not validated
StoreReadNoChecksum(d, m, s, out0, u) ==
  LET fa == s.addr
      fs == sizeofStorageFormat(s)
      rd == FlashRead(d, fa, fs, m, fa, Fill(fs, u), fs, u)
  IN  IF ~rd.ret THEN [ret |-> FALSE, out |-> out0, ev |-> rd.ev]
      ELSE IF IdHashOf(rd.out) # s.variable_hash
      THEN [ret |-> FALSE, out |-> out0, ev |-> rd.ev]
      ELSE [ret |-> TRUE, out |-> DataOf(s, rd.out), ev |-> rd.ev]

\* a faulty variant: the payload is copied out before the record is validated
StoreReadCopyFirst(d, m, s, out0, u) ==
  LET fa == s.addr
      fs == sizeofStorageFormat(s)
      rd == FlashRead(d, fa, fs, m, fa, Fill(fs, u), fs, u)
  IN  IF ~rd.ret THEN [ret |-> FALSE, out |-> out0, ev |-> rd.ev]
      ELSE IF IdHashOf(rd.out) # s.variable_hash
      THEN [ret |-> FALSE, out |-> DataOf(s, rd.out), ev |-> rd.ev]
      ELSE IF ChecksumOf(s, rd.out) # calcChecksum(DataOf(s, rd.out))
      THEN [ret |-> FALSE, out |-> DataOf(s, rd.out), ev |-> rd.ev]
      ELSE [ret |-> TRUE, out |-> DataOf(s, rd.out), ev |-> rd.ev]

\* FlashStorageClass::read(T *data); out0: *data before the call, u: the
\* content of the uninitialised local pkg
StoreRead(d, m, s, out0, u) ==
  LET fa == s.addr
      fs == sizeofStorageFormat(s)
      rd == FlashRead(d, fa, fs, m, fa, Fill(fs, u), fs, u)
  IN  IF ~rd.ret THEN [ret |-> FALSE, out |-> out0, ev |-> rd.ev]
      ELSE IF IdHashOf(rd.out) # s.variable_hash
      THEN [ret |-> FALSE, out |-> out0, ev |-> rd.ev]
      ELSE IF ChecksumOf(s, rd.out) # calcChecksum(DataOf(s, rd.out))
      THEN [ret |-> FALSE, out |-> out0, ev |-> rd.ev]
      ELSE [ret |-> TRUE, out |-> DataOf(s, rd.out), ev |-> rd.ev]

\* FlashStorageClass::read(): 'T data;' is not initialised, u is what the
\* local holds before read(&data) runs
StoreReadValue(d, m, s, u) == StoreRead(d, m, s, Fill(s.size, u), u).out

---------------------------------------------------------------------------
(* The objects and inputs of the model *)

\* the raw regions a behaviour of Spec is run on: [addr, size] as passed to
\* FlashClass(flash_addr, size)
Regions ==
  { [addr |-> 32, size |-> 96],            \* rows 1..3 of the flash
    [addr |-> 0, size |-> 40],             \* a region at address 0 (NULL)
    [addr |-> 32, size |-> 0],             \* no declared length
    [addr |-> 1073741760, size |-> 64] }   \* the last 64 bytes of the address space

\* the typed stores; "ap" = <<97, 112>>, "b1" = <<98, 49>>, "a" = <<97>>
Stores ==
  << FlashStorage(<<97, 112>>, 2, 2, 32),
     FlashStorage(<<98, 49>>, 2, 2, 32),
     FlashStorage(<<97, 112>>, 4, 4, 32),
     FlashStorage(<<97>>, 2, 2, 32),
     FlashStorage(<<97, 112>>, 1, 1, 36),
     FlashStorage(<<97, 112>>, 2, 2, 1073741820),
     \* "cf", a struct of 92 chars: its record takes 12 pages in 3 rows
     FlashStorage(<<99, 102>>, 92, 1, 32) >>

\* the stores of SpecStore
StoreIds == 1 .. 6
\* the stores of SpecPower: a record of one page and a record of 12 pages
PowerIds == {1, 7}

\* the values of T written through a store of the given sizeof(T)
Values(size) ==
  IF size = 1 THEN { <<0>>, <<90>> }
  ELSE IF size = 2 THEN { <<0, 0>>, <<1, 0>>, <<255, 255>> }
  ELSE IF size = 4 THEN { <<0, 0, 0, 0>>, <<120, 86, 52, 18>> }
  ELSE { Fill(size, 0),
         [i \in 1 .. size |-> IF i <= 6 THEN <<91, 90, 89, 88, 87, 172>>[i]
                              ELSE IF i < size THEN 255 ELSE 0] }

\* arguments of the raw calls
Ptrs == {0, 32, 36, 96, 1073741820}
Sizes == {0, 1, 32, 33, 65, 96, 1073741823}
\* the source buffer of a raw write of n bytes
SrcData(n) == [i \in 1 .. n |-> (37 * i) % 256]
\* what an uninitialised or untracked byte may hold
UnknownBytes == {0, 255}
\* what n bytes of the caller's memory hold before a call fills them
Prior(n) == Fill(n, 238)

NoCall ==
  [op |-> "none", store |-> 0, ptr |-> 0, size |-> 0, ret |-> FALSE, pc |-> 0,
   ev |-> << >>, out0 |-> << >>, out |-> << >>, val |-> << >>]

\* the cells of the StorageFormat image of store s
RecordCells(s) ==
  { a \in s.addr .. (s.addr + sizeofStorageFormat(s) - 1) : a \in Cells }
\* the cells of the row the stores are reserved in
BlockCells == { a \in Cells : 32 <= a /\ a < 64 }

---------------------------------------------------------------------------
(* Initial states: the objects as constructed, the flash as programmed     *)

TypeOK ==
  /\ dev \in Devices
  /\ flash_address \in 0 .. UINTPTR_MAX
  /\ flash_size \in 0 .. UINTPTR_MAX
  /\ \A a \in Cells : mem[a] \in 0 .. 255
  /\ nwrites \in 0 .. MaxRawWrites
  /\ nerases \in 0 .. MaxRawErases
  /\ nflips \in 0 .. MaxFlips

InitCommon ==
  /\ dev \in Devices
  /\ nvm = [MANW |-> FALSE, WMODE |-> 1, CACHEDIS0 |-> FALSE, CACHEDIS1 |-> FALSE,
            CSTS |-> (dev = "SAMD51"), READY |-> TRUE]
  /\ last = NoCall
  /\ intact = [store |-> 0, val |-> << >>, flipped |-> << >>, sole |-> TRUE,
               cut |-> << >>]
  /\ nwrites = 0
  /\ nerases = 0
  /\ nflips = 0

\* FlashClass::FlashClass(flash_addr, size)
Init ==
  /\ InitCommon
  \* the reserved blocks are zero-filled by the linker
  /\ mem = [a \in Cells |-> 0]
  /\ \E r \in Regions : flash_address = r.addr /\ flash_size = r.size

\* the typed stores only: the raw region object is FlashClass()
InitStore ==
  /\ InitCommon
  \* the reserved block as linked (zero-filled), or left erased (all ones)
  /\ mem \in { [a \in Cells |-> 0], [a \in Cells |-> IF a \in BlockCells THEN 255 ELSE 0] }
  /\ flash_address = 0
  /\ flash_size = 0

---------------------------------------------------------------------------
(* The raw calls on the region object *)
(* The calls are synchronous and the driver is not reentrant: a call is    *)
(* made when no call is in progress, and runs to its return.               *)

Idle == last.op = "none"

RawRead(ptr, size, u) ==
  LET out0 == Prior(Min(size, MaxBuf))
  IN  Idle /\ \E r \in { FlashRead(dev, flash_address, flash_size, mem, ptr, out0, size, u) } :
      /\ last' = [NoCall EXCEPT !.op = "read", !.ptr = ptr, !.size = size,
                                !.ret = r.ret, !.ev = r.ev, !.out0 = out0,
                                !.out = r.out]
      /\ UNCHANGED <<dev, flash_address, flash_size, mem, nvm, intact, nwrites, nerases, nflips>>

RawWrite(ptr, size, g) ==
  LET data == SrcData(IF size <= MemBytes THEN size ELSE 0)
  IN  /\ Idle
      /\ nwrites < MaxRawWrites \/ ~isWithinBounds(flash_address, flash_size, ptr, size)
      /\ \E r \in { FlashWrite(dev, flash_address, flash_size, mem, nvm, ptr, data, size, g) } :
           /\ mem' = r.mem
           /\ nvm' = r.nvm
           /\ nwrites' = IF r.ret THEN nwrites + 1 ELSE nwrites
           /\ last' = [NoCall EXCEPT !.op = "write", !.ptr = ptr, !.size = size,
                                     !.ret = r.ret, !.ev = r.ev, !.val = data]
      /\ UNCHANGED <<dev, flash_address, flash_size, intact, nerases, nflips>>

RawErase(ptr, size) ==
  /\ Idle
  /\ \/ nerases < MaxRawErases /\ size <= MaxEraseSize
     \/ ~isWithinBounds(flash_address, flash_size, ptr, size)
  /\ \E r \in { FlashErase(dev, flash_address, flash_size, mem, nvm, ptr, size) } :
       /\ mem' = r.mem
       /\ nerases' = IF r.ev # << >> THEN nerases + 1 ELSE nerases
       /\ last' = [NoCall EXCEPT !.op = "erase", !.ptr = ptr, !.size = size,
                                 !.ret = r.ret, !.ev = r.ev]
  /\ UNCHANGED <<dev, flash_address, flash_size, nvm, intact, nwrites, nflips>>

---------------------------------------------------------------------------
(* The calls on the typed stores, and corruption from outside *)

TypedWrite(i, v, g) ==
  Idle /\ \E r \in { StoreWrite(dev, mem, nvm, Stores[i], v, Prior(1)[1], g) } :
      /\ mem' = r.mem
      /\ nvm' = r.nvm
      /\ last' = [NoCall EXCEPT !.op = "twrite", !.store = i, !.ret = r.ret,
                                !.ev = r.ev, !.val = v]
      /\ intact' =
           IF r.ret
           THEN [store |-> i, val |-> v, flipped |-> << >>,
                 sole |-> intact.sole /\ intact.store \in {0, i}, cut |-> << >>]
           ELSE IF r.mem = mem THEN intact
           ELSE [store |-> 0, val |-> << >>, flipped |-> << >>, sole |-> FALSE,
                 cut |-> << >>]
      /\ UNCHANGED <<dev, flash_address, flash_size, nwrites, nerases, nflips>>

TypedRead(i) ==
  LET out0 == Prior(Stores[i].size)
  IN  Idle /\ \E r \in { StoreRead(dev, mem, Stores[i], out0, Prior(1)[1]) } :
      /\ last' = [NoCall EXCEPT !.op = "tread", !.store = i, !.ret = r.ret,
                                !.ev = r.ev, !.out0 = out0, !.out = r.out]
      /\ UNCHANGED <<dev, flash_address, flash_size, mem, nvm, intact, nwrites, nerases, nflips>>

TypedReadValue(i, u) ==
  Idle /\ \E r \in { StoreRead(dev, mem, Stores[i], Fill(Stores[i].size, u), u) } :
      /\ last' = [NoCall EXCEPT !.op = "tvalue", !.store = i, !.ret = r.ret,
                                !.ev = r.ev, !.out0 = Fill(Stores[i].size, u),
                                !.out = StoreReadValue(dev, mem, Stores[i], u)]
      /\ UNCHANGED <<dev, flash_address, flash_size, mem, nvm, intact, nwrites, nerases, nflips>>

\* one bit of a cell of the record last stored changes without a call of
\* the driver
CorruptibleCells ==
  IF intact.store \in StoreIds THEN RecordCells(Stores[intact.store]) ELSE {}

Corrupt(a, k) ==
  /\ Idle
  /\ nflips < MaxFlips
  /\ nflips' = nflips + 1
  /\ mem' = [mem EXCEPT ![a] = FlipBit(@, k)]
  /\ intact' = [intact EXCEPT !.flipped = Append(@, a)]
  /\ UNCHANGED <<dev, flash_address, flash_size, nvm, last, nwrites, nerases>>

\* the caller takes the result of the call: the driver is idle again
Return ==
  /\ ~Idle
  /\ last' = NoCall
  /\ UNCHANGED <<dev, flash_address, flash_size, mem, nvm, intact, nwrites, nerases, nflips>>

---------------------------------------------------------------------------
(* The specifications *)

Next ==
  \/ \E ptr \in Ptrs, size \in Sizes, u \in UnknownBytes : RawRead(ptr, size, u)
  \/ \E ptr \in Ptrs, size \in Sizes, g \in UnknownBytes : RawWrite(ptr, size, g)
  \/ \E ptr \in Ptrs, size \in Sizes : RawErase(ptr, size)
  \/ Return

NextStore ==
  \/ \E i \in StoreIds : \E v \in Values(Stores[i].size), g \in UnknownBytes :
       TypedWrite(i, v, g)
  \/ \E i \in StoreIds : TypedRead(i)
  \/ \E i \in StoreIds, u \in UnknownBytes : TypedReadValue(i, u)
  \/ \E a \in CorruptibleCells, k \in 0 .. 7 : Corrupt(a, k)
  \/ Return

\* the raw driver on one region
Spec == Init /\ [][Next]_vars

\* the typed stores over one reserved block
SpecStore == InitStore /\ [][NextStore]_vars

\* the tags of one logical name for two sizes of T: hash_variable as the
\* FlashStorage macro calls it
HashNames == { <<97, 112>>, <<98, 49>>, <<97>> }
\* sizes around the values where value + 0x9e37 carries out of 16 bits
SizeProbes == { 2, 25032 }
ByteSizes == 0 .. (Pow16 - 1)

HashSizes(name, s1, s2) ==
  /\ Idle
  /\ last' = [NoCall EXCEPT !.op = "hash", !.val = name, !.out0 = <<s1, s2>>,
                            !.out = <<hash_variable(name, s1), hash_variable(name, s2)>>]
  /\ UNCHANGED <<dev, flash_address, flash_size, mem, nvm, intact, nwrites, nerases, nflips>>

InitHash == InitStore /\ dev = "SAMD21" /\ mem = [a \in Cells |-> 0]

NextHash ==
  \/ Idle /\ \E name \in HashNames, s1 \in SizeProbes, s2 \in ByteSizes :
                 HashSizes(name, s1, s2)
  \/ Return

\* hash_variable on its own
SpecHash == InitHash /\ [][NextHash]_vars

---------------------------------------------------------------------------
(* A store over a block that has never been written *)
(* FlashStorageClass<T>(flash_addr, var_hash) for a T of n bytes without    *)
(* alignment, over the reserved block as linked (all zeros) or as an erase *)
(* leaves it (all ones).                                                   *)

MaxPayload == 12

\* tags: the two a blank block can show, the tag of FlashStorage(ap,
\* uint16_t), and others
FreshTags == { 0, 65535, 12157, 1, 255, 65280, 42405 }

FlashStorageClass(flash_addr, var_hash, n) ==
  [name |-> << >>, size |-> n, align |-> 1, addr |-> flash_addr,
   variable_hash |-> var_hash]

\* the store of a call of FreshRead
FreshStore == FlashStorageClass(last.ptr, last.val[1], last.size)

FreshRead(tag, n) ==
  LET s    == FlashStorageClass(32, tag, n)
      out0 == Prior(n)
  IN  \E r \in { StoreRead(dev, mem, s, out0, Prior(1)[1]) } :
        /\ last' = [NoCall EXCEPT !.op = "fresh", !.ptr = s.addr, !.size = n,
                                  !.val = <<tag>>, !.ret = r.ret, !.ev = r.ev,
                                  !.out0 = out0, !.out = r.out]
        /\ UNCHANGED <<dev, flash_address, flash_size, mem, nvm, intact, nwrites, nerases, nflips>>

NextFresh ==
  \/ Idle /\ \E tag \in FreshTags, n \in 1 .. MaxPayload : FreshRead(tag, n)
  \/ Return

SpecFresh == InitStore /\ [][NextFresh]_vars

---------------------------------------------------------------------------
(* A raw call run step by step against the controller *)
(* The call made by RawRead, RawWrite or RawErase has its result and its   *)
(* accesses to the hardware, last.ev, determined by its arguments; the     *)
(* steps below perform these accesses one at a time.  A command lowers the *)
(* flag the driver polls, the controller raises it when the command is     *)
(* done, and a 'while (flag == 0) { }' loop is passed once the flag is up. *)
(* The cache controller follows CTRL.CEN without delay.                    *)

NextEvent == last.ev[last.pc + 1]

Exec ==
  /\ ~Idle
  /\ last.pc < Len(last.ev)
  /\ NextEvent[1] \in {"WAIT"} => nvm.READY
  /\ last' = [last EXCEPT !.pc = @ + 1]
  /\ nvm' = IF IsCommand(NextEvent) THEN [nvm EXCEPT !.READY = FALSE] ELSE nvm
  /\ UNCHANGED <<dev, flash_address, flash_size, mem, intact, nwrites, nerases, nflips>>

\* the controller finishes the command
HwReady ==
  /\ ~nvm.READY
  /\ nvm' = [nvm EXCEPT !.READY = TRUE]
  /\ UNCHANGED <<dev, flash_address, flash_size, mem, last, intact, nwrites, nerases, nflips>>

\* the call returns
Complete ==
  /\ ~Idle
  /\ last.pc = Len(last.ev)
  /\ last' = NoCall
  /\ UNCHANGED <<dev, flash_address, flash_size, mem, nvm, intact, nwrites, nerases, nflips>>

SyncPtrs == {32, 36, 96}
SyncSizes == {0, 1, 33, 65}

NextSync ==
  \/ \E ptr \in SyncPtrs, size \in SyncSizes, u \in UnknownBytes : RawRead(ptr, size, u)
  \/ \E ptr \in SyncPtrs, size \in SyncSizes, g \in UnknownBytes : RawWrite(ptr, size, g)
  \/ \E ptr \in SyncPtrs, size \in SyncSizes : RawErase(ptr, size)
  \/ Exec
  \/ HwReady
  \/ Complete

\* the processor keeps running the call, and the controller finishes every
\* command
SpecSync ==
  Init /\ [][NextSync]_vars /\ WF_vars(Exec) /\ WF_vars(HwReady) /\ WF_vars(Complete)

---------------------------------------------------------------------------
(* Power loss during FlashStorageClass::write *)
(* The controller commands of a write are the row erases of flash.erase()  *)
(* and then, page by page, PBC and WP of flash.write(&pkg).  Power is lost *)
(* after a prefix of them: the flash holds what the commands of the prefix *)
(* have left, and the controller comes up in its reset state.              *)

\* the mode bits after reset
PowerOnNvm(d) ==
  [MANW |-> FALSE, WMODE |-> 1, CACHEDIS0 |-> FALSE, CACHEDIS1 |-> FALSE,
   CSTS |-> (d = "SAMD51"), READY |-> TRUE]

\* the positions of a trace where power is lost: before its first event, or
\* after one of its commands
CutPoints(ev) == {0} \cup { k \in 1 .. Len(ev) : IsCommand(ev[k]) }

\* the flash after the first e row erases and the first w page writes of
\* write(data) on store s
CutImage(d, m, n, s, data, g, e, w) ==
  LET fa    == s.addr
      fs    == sizeofStorageFormat(s)
      words == ((fs + 3) % AddrSpace) \div 4
  IN  IF e = 0 THEN m
      ELSE IF w = 0 THEN EraseRows(d, m, n, fa, Min(fs, e * ROW_SIZE(d))).mem
      ELSE WritePages(d, FlashErase(d, fa, fs, m, n, fa, fs).mem, n, fa, Pkg(s, data),
                      0, Min(words, w * (PAGE_SIZE \div 4)), g).mem

\* store i holds the record of its last write, whole and untouched
HoldsRecord(i) == intact.store = i /\ intact.flipped = << >> /\ intact.cut = << >>

\* write(v) on store i, over the record the store holds, loses power after k
\* events of its trace
CutWrite(i, v, g) ==
  Idle /\ HoldsRecord(i)
       /\ \E r \in { StoreWrite(dev, mem, nvm, Stores[i], v, Prior(1)[1], g) } :
    \E k \in CutPoints(r.ev) :
      /\ \E done \in { SubSeq(r.ev, 1, k) } :
           mem' = CutImage(dev, mem, nvm, Stores[i], v, g,
                           Len(RowErases(done)), Len(PageWrites(done)))
      /\ nvm' = PowerOnNvm(dev)
      /\ last' = [NoCall EXCEPT !.op = "cut", !.store = i, !.pc = k,
                                !.ev = r.ev, !.val = v]
      /\ intact' = [intact EXCEPT !.cut = v]
      /\ UNCHANGED <<dev, flash_address, flash_size, nwrites, nerases, nflips>>

InitPower == InitStore /\ mem = [a \in Cells |-> 0]

NextPower ==
  \/ \E i \in PowerIds : \E v \in Values(Stores[i].size), g \in UnknownBytes :
       TypedWrite(i, v, g)
  \/ \E i \in PowerIds : \E v \in Values(Stores[i].size), g \in UnknownBytes :
       CutWrite(i, v, g)
  \/ \E i \in PowerIds : TypedRead(i)
  \/ Return

\* the typed stores with power losses
SpecPower == InitPower /\ [][NextPower]_vars

---------------------------------------------------------------------------
(* The raw driver on a region whose length is not a multiple of 4 *)

\* [addr, size] as passed to FlashClass(flash_addr, size)
FrameRegions ==
  { [addr |-> 32, size |-> 33],
    [addr |-> 32, size |-> 96] }

\* FlashClass::FlashClass(flash_addr, size)
InitFrame ==
  /\ InitCommon
  /\ mem = [a \in Cells |-> 0]
  /\ \E r \in FrameRegions : flash_address = r.addr /\ flash_size = r.size

SpecFrame == InitFrame /\ [][Next]_vars

---------------------------------------------------------------------------
(* Properties of the raw driver (Spec) *)

RawOps == {"read", "write", "erase"}

\* the bounds check of the region object on the arguments of the last call
Accepted == isWithinBounds(flash_address, flash_size, last.ptr, last.size)

\* C2. Bounds safety: on a region constructed with a declared length L > 0,
\* whatever its base address (a NULL base included), read, write and erase
\* return true only if offset >= base, offset + size <= base + L and
\* offset + size does not overflow the address width.
C2_BoundsSafety ==
  (last.op \in RawOps /\ flash_size > 0 /\ last.ret)
    => /\ last.ptr >= flash_address
       /\ last.ptr <= UINTPTR_MAX - last.size
       /\ last.ptr + last.size <= flash_address + flash_size

\* the number of rows erase(p, n) has to erase: k full rows and the partial
\* remainder
RowCount(n) == (n \div ROW_SIZE(dev)) + (IF n % ROW_SIZE(dev) > 0 THEN 1 ELSE 0)

Misaligned == last.op = "erase" /\ last.ptr % ROW_SIZE(dev) # 0

\* C6 as stated. Erase alignment: for every pointer p that is not a multiple
\* of ROW_SIZE and every size n, n = 0 included, erase(p, n) returns false
\* and issues no row-erase command.
C6_AsStated ==
  Misaligned => ~last.ret /\ RowErases(last.ev) = << >>

\* C6. Erase alignment: for every pointer p that is not a multiple of
\* ROW_SIZE, erase(p, n) issues no row-erase command and leaves the flash
\* as it is; for n > 0 it returns false; for n = 0 there is no row to erase
\* and it returns the result of the bounds check.
C6_EraseAlignment ==
  Misaligned
    => /\ RowErases(last.ev) = << >>
       /\ last.size > 0 => ~last.ret
       /\ last.size = 0 => (last.ret <=> Accepted)

\* a misaligned erase of n > 0 bytes inside the bounds of the region: the
\* alignment test of the single-row erase is what rejects it
C6_Witness ==
  /\ Misaligned
  /\ last.size > 0
  /\ Accepted
  /\ ~last.ret
  /\ flash_size > 0

\* the rows of erase(p, n) all start inside the physical flash
RowsInFlash ==
  last.size = 0
    \/ last.ptr + (RowCount(last.size) - 1) * ROW_SIZE(dev) < flash_size_bytes(dev)

\* C7. Erase decomposition: for a row-aligned p and n = k*ROW_SIZE + r with
\* 0 <= r < ROW_SIZE, the range accepted by the bounds check and its rows
\* inside the physical flash, erase(p, n) returns true and issues exactly
\* k + (1 if r > 0 else 0) row-erase commands, at p, p + ROW_SIZE, ... in
\* increasing order; every byte of [p, p+n) lies in an erased row (and reads
\* 0xFF afterwards), and no row is erased twice.
C7_EraseDecomposition ==
  (last.op = "erase" /\ last.ptr % ROW_SIZE(dev) = 0 /\ Accepted /\ RowsInFlash)
    => LET er == RowErases(last.ev)
       IN  /\ last.ret
           /\ er = [i \in 1 .. RowCount(last.size) |->
                      <<"ER", last.ptr + (i - 1) * ROW_SIZE(dev)>>]
           /\ \A a \in last.ptr .. (last.ptr + last.size - 1) :
                /\ \E i \in 1 .. Len(er) : er[i][2] <= a /\ a < er[i][2] + ROW_SIZE(dev)
                /\ a \in Cells => mem[a] = 255
           /\ \A i, j \in 1 .. Len(er) : i # j => er[i][2] # er[j][2]

\* an erase of two full rows and a partial third one, on a bounded region
C7_Witness ==
  /\ last.op = "erase"
  /\ last.ptr % ROW_SIZE(dev) = 0
  /\ Accepted
  /\ RowsInFlash
  /\ flash_size > 0
  /\ last.size \div ROW_SIZE(dev) = 2
  /\ last.size % ROW_SIZE(dev) > 0
  /\ Len(RowErases(last.ev)) = 3

\* the call made in this step is refused by the bounds check of a bounded
\* region
Rejected ==
  /\ last'.op \in RawOps
  /\ last.op = "none"
  /\ ~isWithinBounds(flash_address, flash_size, last'.ptr, last'.size)

\* C8. Out-of-bounds rejection has no effect: a read, write or erase refused
\* by the bounds check returns false, issues no controller command (no
\* page-buffer-clear, page-write or row-erase; no register access at all),
\* changes no controller mode bit, and leaves the flash and the caller's
\* destination buffer unchanged.
C8_RejectionNoEffect ==
  [][ Rejected
        => /\ ~last'.ret
           /\ last'.ev = << >>
           /\ nvm' = nvm
           /\ mem' = mem
           /\ last'.out = last'.out0 ]_vars

\* a write refused by the bounds check, of a non-empty buffer, to a flash
\* that an earlier erase has changed
C8_Witness ==
  /\ last.op = "write"
  /\ ~Accepted
  /\ last.size > 0
  /\ ~last.ret
  /\ nerases > 0
  /\ \E a \in Cells : mem[a] = 255

\* C12. Unbounded region: on a FlashClass constructed with declared length
\* 0 the bounds check accepts every (offset, size), the ranges whose
\* offset + size overflows the address width included, so read and write
\* never return false.
C12_UnboundedRegion ==
  (flash_size = 0 /\ last.op \in RawOps)
    => /\ Accepted
       /\ last.op \in {"read", "write"} => last.ret

\* a write on a region of declared length 0 whose offset + size overflows
C12_Witness ==
  /\ flash_size = 0
  /\ flash_address # 0
  /\ last.op = "write"
  /\ last.ptr > UINTPTR_MAX - last.size
  /\ last.ret

\* this step issues a controller command
IssuesCommand ==
  /\ last.op \in RawOps
  /\ last.pc < Len(last.ev)
  /\ last'.pc = last.pc + 1
  /\ IsCommand(NextEvent)

\* this step is the return of a call
Returns == last.op \in RawOps /\ last'.op = "none"

\* C13. Synchronous completion: no read, write or erase returns while a
\* controller command it issued (page-buffer-clear, page-write, row-erase)
\* is pending; every command is followed by a wait on the ready/done flag
\* before the next command is issued or the call returns; and every call
\* terminates, provided the controller raises the flag after each command.
C13_SynchronousCompletion ==
  /\ [][Returns => nvm.READY]_vars
  /\ [][IssuesCommand => nvm.READY]_vars
  /\ [](Idle => nvm.READY)
  /\ (~Idle ~> Idle)

\* a write waits for the page-write command it has issued
C13_Witness ==
  /\ last.op = "write"
  /\ last.pc > 0
  /\ last.pc < Len(last.ev)
  /\ last.ev[last.pc][1] = "WP"
  /\ NextEvent[1] = "WAIT"
  /\ ~nvm.READY

\* the page-buffer clears, page-buffer fills and page writes of a trace
PageEvents(ev) == SelectSeq(ev, LAMBDA e : e[1] \in {"PBC", "FILL", "WP"})

\* c is a sequence of chunks: one PBC, at most PAGE_SIZE bytes of fill, one WP
Chunked(c) ==
  /\ Len(c) > 0 => c[1][1] = "PBC"
  /\ \A i \in 1 .. Len(c) :
       /\ c[i][1] = "PBC" =>
            \E j \in (i + 1) .. Len(c) :
              /\ c[j][1] = "WP"
              /\ 4 * (j - i - 1) <= PAGE_SIZE
              /\ \A k \in (i + 1) .. (j - 1) : c[k][1] = "FILL"
       /\ c[i][1] = "WP" => (i = Len(c) \/ c[i + 1][1] = "PBC")

\* ceil(ceil(n/4)*4 / PAGE_SIZE)
PagesOf(n) == (((n + 3) \div 4) * 4 + PAGE_SIZE - 1) \div PAGE_SIZE

\* C15. Page-programming sequence: an accepted raw write of size n issues,
\* for each chunk in order, exactly one page-buffer-clear, then at most
\* PAGE_SIZE bytes of buffer fill, then exactly one page-write command; the
\* number of page-write commands is ceil(ceil(n/4)*4 / PAGE_SIZE), it is 0
\* for n = 0, and no page-write is issued without a page-buffer-clear since
\* the previous page-write.
C15_PageProgramming ==
  (last.op = "write" /\ last.ret)
    => /\ Chunked(PageEvents(last.ev))
       /\ Len(PageWrites(last.ev)) = PagesOf(last.size)

\* the same for the sizes n whose rounding n + 3 stays inside the width of
\* the size argument
C15_WithoutWrap ==
  (last.op = "write" /\ last.ret /\ last.size + 3 <= UINTPTR_MAX)
    => /\ Chunked(PageEvents(last.ev))
       /\ Len(PageWrites(last.ev)) = PagesOf(last.size)

\* the address of row i (from 1) of the erase call, and whether its
\* single-row erase fails
RowAddr(i) == (last.ptr + (i - 1) * ROW_SIZE(dev)) % AddrSpace
RowFails(i) ==
  RowAddr(i) % ROW_SIZE(dev) # 0 \/ RowAddr(i) >= flash_size_bytes(dev)
FailingRows == { i \in 1 .. RowCount(last.size) : RowFails(i) }
FirstFailingRow == CHOOSE i \in FailingRows : \A j \in FailingRows : i <= j

\* C16. Multi-row erase abort: during erase(p, n), as soon as a single-row
\* erase fails (row address not row-aligned, or at or beyond the physical
\* flash size reported by the hardware), erase returns false and issues no
\* row-erase command for that row or for any later row of the request: the
\* rows erased are those before the first failing one.
C16_EraseAbort ==
  (last.op = "erase" /\ Accepted /\ FailingRows # {})
    => /\ ~last.ret
       /\ RowErases(last.ev) = [i \in 1 .. (FirstFailingRow - 1) |-> <<"ER", RowAddr(i)>>]

\* an erase of two rows of which the second lies behind the end of the flash
C16_Witness ==
  /\ last.op = "erase"
  /\ Accepted
  /\ FailingRows # {}
  /\ FirstFailingRow = 2
  /\ Len(RowErases(last.ev)) = 1
  /\ ~last.ret

---------------------------------------------------------------------------
(* Properties of the raw driver on a bounded region (SpecFrame) *)

\* the call made in this step is a raw write that the driver accepts
AcceptedWrite == last.op = "none" /\ last'.op = "write" /\ last'.ret

\* the flash cells whose content this step changes
Programmed == { a \in Cells : mem'[a] # mem[a] }

\* the number of source bytes the fill loop of the call reads: four for
\* each word stored into the page buffer
SourceBytesRead == 4 * Len(SelectSeq(last'.ev, LAMBDA e : e[1] = "FILL"))

\* C18. Write frame: an accepted raw write(flash_ptr, data, size) programs
\* only flash bytes inside [flash_ptr, flash_ptr + size) and reads only
\* source bytes inside [data, data + size), for every size including sizes
\* that are not a multiple of 4; on a bounded region no byte outside
\* [base, base + length) is ever programmed.
C18_WriteFrame ==
  [][ AcceptedWrite
        => /\ \A a \in Programmed :
                last'.ptr <= a /\ a < last'.ptr + last'.size
           /\ SourceBytesRead <= last'.size
           /\ (flash_size > 0 /\ flash_address # 0)
                => \A a \in Programmed :
                     flash_address <= a /\ a < flash_address + flash_size ]_vars

\* the three parts of C18, one at a time
C18_FlashFrame ==
  [][ AcceptedWrite
        => \A a \in Programmed : last'.ptr <= a /\ a < last'.ptr + last'.size ]_vars

C18_SourceFrame ==
  [][ AcceptedWrite => SourceBytesRead <= last'.size ]_vars

C18_RegionFrame ==
  [][ (AcceptedWrite /\ flash_size > 0 /\ flash_address # 0)
        => \A a \in Programmed :
             flash_address <= a /\ a < flash_address + flash_size ]_vars

\* the frame that the code keeps: the words that cover [flash_ptr,
\* flash_ptr + size)
C18_WordFrame ==
  [][ (AcceptedWrite /\ last'.size + 3 <= UINTPTR_MAX)
        => /\ \A a \in Programmed :
                last'.ptr <= a /\ a < last'.ptr + RoundUp(last'.size, 4)
           /\ SourceBytesRead = RoundUp(last'.size, 4) ]_vars

---------------------------------------------------------------------------
(* Properties of the typed stores (SpecStore) *)

\* the store of the last call reads the record stored by its own last
\* successful write
OwnRecord == last.store = intact.store

\* C1. Write/read round trip: after any sequence of write(v) calls of a
\* store that returned true, and no other modification of its record,
\* read(&out) returns true and out is byte-identical to the value passed to
\* the last write.
C1_RoundTrip ==
  (last.op = "tread" /\ OwnRecord /\ intact.flipped = << >>)
    => last.ret /\ last.out = intact.val

\* a read after writes of more than one store, of a value whose bits are
\* not those of the erased or of the zero-filled flash
C1_Witness ==
  /\ last.op = "tread"
  /\ OwnRecord
  /\ intact.flipped = << >>
  /\ ~intact.sole
  /\ last.ret
  /\ last.out = <<120, 86, 52, 18>>

\* the cells of the payload and of the checksum of the record of store s
PayloadCells(s) == { a \in RecordCells(s) : offData(s) <= a - s.addr /\ a - s.addr < offData(s) + s.size }
ChecksumCells(s) == { a \in RecordCells(s) : offSum(s) <= a - s.addr /\ a - s.addr < offSum(s) + 2 }

\* one bit of the payload or of the checksum of the record last stored has
\* been flipped, and nothing else has changed
OneBitFlipped ==
  /\ intact.store \in StoreIds
  /\ Len(intact.flipped) = 1
  /\ intact.flipped[1] \in PayloadCells(Stores[intact.store])
                             \cup ChecksumCells(Stores[intact.store])

\* C3. Corruption detection: from a record stored by a successful write,
\* flipping any single bit of the stored payload bytes or of the stored
\* checksum makes the next read(&out) return false, for every payload value
\* and every bit position.
C3_CorruptionDetected ==
  (last.op = "tread" /\ OwnRecord /\ OneBitFlipped) => ~last.ret

\* a read after one flipped bit in the payload of a four-byte value
C3_Witness ==
  /\ last.op = "tread"
  /\ OwnRecord
  /\ OneBitFlipped
  /\ intact.flipped[1] \in PayloadCells(Stores[intact.store])
  /\ intact.val = <<120, 86, 52, 18>>
  /\ ~last.ret

\* C4. Identity isolation: for two stores A and B over the same raw bytes
\* whose tags come from hash_variable with different logical names, or with
\* the same name and different sizeof(T), after only A has written a value,
\* B.read(&out) returns false.
C4_IdentityIsolation ==
  (/\ last.op = "tread"
   /\ intact.store \in StoreIds
   /\ intact.sole
   /\ intact.flipped = << >>
   /\ last.store # intact.store
   /\ Stores[last.store].addr = Stores[intact.store].addr
   /\ \/ Stores[last.store].name # Stores[intact.store].name
      \/ Stores[last.store].size # Stores[intact.store].size)
    => ~last.ret

\* the call made in this step is write(v) of the store whose write(v) was
\* the last to return true, with nothing modified in between
SameWriteAgain ==
  /\ last.op = "none"
  /\ last'.op = "twrite"
  /\ intact.store \in StoreIds
  /\ intact.flipped = << >>
  /\ last'.store = intact.store
  /\ last'.val = intact.val

\* C5. Wear-avoidance idempotence: when write(v) has returned true and
\* write(v) is called again with the same value and no modification in
\* between, the second call returns true, issues no row-erase and no
\* page-write command (no controller command at all), and leaves the flash
\* as the first call left it; a write that does program the record erases
\* exactly one row, so the two calls make one erase pass in total.
C5_WearAvoidance ==
  [][ /\ SameWriteAgain
        => /\ last'.ret
           /\ Commands(last'.ev) = << >>
           /\ mem' = mem
           /\ nvm' = nvm
      /\ (last'.op = "twrite" /\ last.op = "none" /\ PageWrites(last'.ev) # << >>)
        => Len(RowErases(last'.ev)) = 1 ]_vars

\* a write that returned true without a controller command, over a record
\* that an earlier write had to erase and program
C5_Witness ==
  /\ last.op = "twrite"
  /\ last.ret
  /\ Commands(last.ev) = << >>
  /\ OwnRecord
  /\ last.val = intact.val
  /\ last.val = <<255, 255>>

\* the StorageFormat image the flash holds at the address of store s
Stored(s) == [i \in 1 .. sizeofStorageFormat(s) |-> Load(mem, s.addr + i - 1, 0)]

\* the region read of store s succeeds, the stored tag is the tag of s and
\* the stored checksum is that of the stored payload
ValidRecord(s) ==
  /\ isWithinBounds(s.addr, sizeofStorageFormat(s), s.addr, sizeofStorageFormat(s))
  /\ IdHashOf(Stored(s)) = s.variable_hash
  /\ ChecksumOf(s, Stored(s)) = calcChecksum(DataOf(s, Stored(s)))

\* C9. Typed read validity: read(&out) returns true exactly when the region
\* read succeeds, the stored identity tag equals the store's variable_hash
\* and the stored checksum equals calcChecksum over the stored payload; when
\* it returns true, out equals the stored payload, and when it returns
\* false, out is left unchanged.
C9_TypedReadValidity ==
  last.op = "tread"
    => /\ last.ret <=> ValidRecord(Stores[last.store])
       /\ last.ret => last.out = DataOf(Stores[last.store], Stored(Stores[last.store]))
       /\ ~last.ret => last.out = last.out0

\* a read that finds its own tag and a checksum that does not match
C9_Witness ==
  /\ last.op = "tread"
  /\ ~last.ret
  /\ IdHashOf(Stored(Stores[last.store])) = Stores[last.store].variable_hash
  /\ ChecksumOf(Stores[last.store], Stored(Stores[last.store]))
       # calcChecksum(DataOf(Stores[last.store], Stored(Stores[last.store])))
  /\ last.out = last.out0
  /\ last.out # DataOf(Stores[last.store], Stored(Stores[last.store]))

\* C10. Convenience read fallback: whenever the stored record is invalid
\* (region read failure, tag mismatch or checksum mismatch), the
\* value-returning read() yields the zero-initialised instance of T,
\* independent of any prior memory contents.
C10_DefaultOnFailure ==
  (last.op = "tvalue" /\ ~ValidRecord(Stores[last.store]))
    => last.out = Fill(Stores[last.store].size, 0)

\* the call made in this step is a typed write whose candidate record is not
\* the record the flash holds
WritesNewRecord ==
  /\ last.op = "none"
  /\ last'.op = "twrite"
  /\ LET s == Stores[last'.store]
     IN  ~(/\ isWithinBounds(s.addr, sizeofStorageFormat(s), s.addr, sizeofStorageFormat(s))
           /\ Stored(s) = Pkg(s, last'.val))

\* the whole-region erase of store s on the flash as it is
EraseOf(s) ==
  FlashErase(dev, s.addr, sizeofStorageFormat(s), mem, nvm, s.addr, sizeofStorageFormat(s))

\* C14. Erase before write in the typed store: in every write call whose
\* candidate record differs from the stored one, all row-erase commands
\* precede all page-write commands; if the erase returns false no page-write
\* command is issued and write returns false; otherwise write returns the
\* result of the raw write of the record.
C14_EraseBeforeWrite ==
  [][ WritesNewRecord
        => LET s  == Stores[last'.store]
               fs == sizeofStorageFormat(s)
           IN  \E ev \in { last'.ev }, er \in { EraseOf(s) } :
                 /\ \A i, j \in 1 .. Len(ev) :
                      (ev[i][1] = "ER" /\ ev[j][1] = "WP") => i < j
                 /\ ~er.ret => (PageWrites(ev) = << >> /\ ~last'.ret)
                 /\ er.ret =>
                      /\ RowErases(ev) # << >>
                      /\ \E wr \in { FlashWrite(dev, s.addr, fs, er.mem, nvm, s.addr,
                                                Pkg(s, last'.val), fs, 0) } :
                           /\ last'.ret = wr.ret
                           /\ \A a \in RecordCells(s) : mem'[a] = wr.mem[a] ]_vars

\* a write that erased one row and then programmed two pages
C14_Witness ==
  /\ last.op = "twrite"
  /\ last.ret
  /\ Len(RowErases(last.ev)) = 1
  /\ Len(PageWrites(last.ev)) = 2

---------------------------------------------------------------------------
(* Properties of the tag (SpecHash) *)

\* C11. Tag separation by size: for every logical name and every two byte
\* sizes s1 # s2, both below 2^16, hash_variable(name, s1) differs from
\* hash_variable(name, s2), the arithmetic taken as the code computes it
\* (int arithmetic, the result truncated to 16 bits).
C11_TagSeparation ==
  (last.op = "hash" /\ last.out0[1] # last.out0[2]) => last.out[1] # last.out[2]

\* two sizes on the two sides of the carry of value + 0x9e37 out of 16 bits
C11_Witness ==
  /\ last.op = "hash"
  /\ last.out0 = <<25032, 25033>>
  /\ last.out[1] # last.out[2]

---------------------------------------------------------------------------
(* Properties of a store over a blank block (SpecFresh) *)

\* every cell of the record of store s holds the byte b
Blank(s, b) == \A a \in RecordCells(s) : mem[a] = b

\* C17. Never-written detection: for every store tag and payload size,
\* read(&out) returns false on a region the store has never written,
\* whether the region holds the all-zero image it was reserved with or the
\* all-ones image left by an erase; out is left as it was.
C17_NeverWritten ==
  (last.op = "fresh" /\ (Blank(FreshStore, 0) \/ Blank(FreshStore, 255)))
    => ~last.ret /\ last.out = last.out0

\* a read of an erased block by a store whose tag is 0xFFFF: the tag
\* matches, the checksum rejects the record
C17_Witness ==
  /\ last.op = "fresh"
  /\ Blank(FreshStore, 255)
  /\ FreshStore.variable_hash = 65535
  /\ IdHashOf(Stored(FreshStore)) = FreshStore.variable_hash
  /\ ~last.ret


---------------------------------------------------------------------------
(* Properties of the typed stores under power loss (SpecPower) *)

\* a read through the store whose write(new) over its valid record lost
\* power
ReadAfterCut ==
  /\ last.op = "tread"
  /\ OwnRecord
  /\ intact.flipped = << >>
  /\ intact.cut # << >>

\* C19. Interrupted-write safety: if a FlashStorageClass::write(new) over a
\* region holding a valid record for value old is cut off (power loss)
\* between any two hardware commands, a later read(&out) either returns
\* false or returns true with out equal to old or to new; it never returns
\* true with any other value.
C19_InterruptedWrite ==
  ReadAfterCut => (~last.ret \/ last.out \in {intact.val, intact.cut})

\* the same for the records that one page write programs
C19_OnePage ==
  (ReadAfterCut /\ sizeofStorageFormat(Stores[last.store]) <= PAGE_SIZE)
    => (~last.ret \/ last.out \in {intact.val, intact.cut})

===========================================================================
